---- MODULE Spec2Model ----
(***************************************************************************)
(* A model of paddle/fluid/inference/analysis/node.h: the AnyAttr          *)
(* attribute slot, the Node base class with its three subclasses, and the  *)
(* owning NodeMap.                                                         *)
(*                                                                         *)
(* A Node* is modelled by the position of the node in NodeMap::nodes_      *)
(* (0-based, as in the C++ vector); nodes_ is a TLA+ sequence, so the node *)
(* at position p is nodes_[p + 1].  An exception thrown by PADDLE_ENFORCE  *)
(* is modelled as an outcome of the call: the call's record in `last`      *)
(* carries err, and the state keeps whatever the call had already done.    *)
(* The fields of Value, Function and FunctionBlock that no property below  *)
(* reads (data_type_, dims_, device_, func_type_, subgraph) are left out.  *)
(***************************************************************************)
EXTENDS Integers, Sequences, FiniteSets, TLC

VARIABLES nodes_, last

vars == <<nodes_, last>>

(* ------------------------------ bounds --------------------------------- *)

\* How many nodes the Registry is asked to create.
MaxNodes == 2

\* How many entries the inlinks and outlinks of all nodes hold together.
MaxLinks == 2

\* size_t is modelled SizeBits wide (the real width does not fit TLC's
\* integers); only "wider than any id in use" matters.
SizeBits == 8

(* ------------------------------ domains -------------------------------- *)

\* int id_{-1}
Unassigned == -1

\* enum class Node::Type
NodeTypes == {"kNone", "kFunction", "kValue", "kFunctionBlock"}

\* The types NodeMap::Create builds a node for.
Variants == {"kFunction", "kValue", "kFunctionBlock"}

\* The dynamic classes of the nodes (what dynamic_cast sees).
Classes == {"Function", "Value", "FunctionBlock"}

\* The alternatives of AnyAttr::any_t, in declaration order.
AttrTypes == {"bool", "float", "int32_t", "int64_t", "void*", "std::string"}

\* T() for each alternative; values are written as C++ literals.
Default(T) ==
  CASE T = "bool" -> "false"
    [] T = "float" -> "0.0f"
    [] T = "int32_t" -> "0"
    [] T = "int64_t" -> "0L"
    [] T = "void*" -> "nullptr"
    [] T = "std::string" -> ""

\* The values of each alternative the model writes.
Vals(T) ==
  CASE T = "bool" -> {"false", "true"}
    [] T = "float" -> {"0.0f", "1.5f"}
    [] T = "int32_t" -> {"0", "7"}
    [] T = "int64_t" -> {"0L", "9L"}
    [] T = "void*" -> {"nullptr", "0xA"}
    [] T = "std::string" -> {"", "msg"}

\* The attribute names in use; the last two are the names Node itself uses.
AttrNames == {"x", "pb_desc", "pb_msg"}

\* The names given to nodes.
NodeNames == {"a"}

(* ------------------------------ AnyAttr -------------------------------- *)

\* A default-constructed AnyAttr: type_index_{typeid(AnyAttr)} and a
\* default-constructed boost::variant, which holds its first alternative.
\* `present` tells whether the name is a key of attrs_.
AnyAttrCtor ==
  [present |-> TRUE, type_index_ |-> "AnyAttr", which |-> "bool", val |-> "false"]

\* The name is no key of the map.
NoAttr == [AnyAttrCtor EXCEPT !.present = FALSE]

\* boost::get<T>(any_data_): the stored value, or bad_get.
BoostGet(a, T) ==
  IF a.which = T THEN [err |-> "ok", val |-> a.val]
  ELSE [err |-> "bad_get", val |-> "-"]

\* A variant of As that initialises the slot on every access.
AnyAttrAsResets(a, T) ==
  IF a.type_index_ = "AnyAttr" \/ a.type_index_ = T
  THEN LET b == [a EXCEPT !.type_index_ = T, !.which = T, !.val = Default(T)]
       IN  [attr |-> b, err |-> "ok", val |-> b.val]
  ELSE [attr |-> a, err |-> "TypeMismatch", val |-> "-"]

\* A variant of As that retypes the slot instead of refusing.
AnyAttrAsRetypes(a, T) ==
  IF a.type_index_ = T
  THEN [attr |-> a, err |-> "ok", val |-> a.val]
  ELSE LET b == [a EXCEPT !.type_index_ = T, !.which = T, !.val = Default(T)]
       IN  [attr |-> b, err |-> "ok", val |-> b.val]

\* A variant of As that refuses only after it has cleared the slot.
AnyAttrAsClobbers(a, T) ==
  IF a.type_index_ = "AnyAttr"
  THEN LET b == [a EXCEPT !.type_index_ = T, !.which = T, !.val = Default(T)]
       IN  [attr |-> b, err |-> "ok", val |-> b.val]
  ELSE IF a.type_index_ = T
  THEN [attr |-> a, err |-> "ok", val |-> a.val]
  ELSE [attr |-> [a EXCEPT !.val = Default(a.which)],
        err |-> "TypeMismatch", val |-> "-"]

\* template <typename T> T &AnyAttr::As(): the slot afterwards, the outcome
\* and the value the returned reference denotes.
AnyAttrAs(a, T) ==
  IF a.type_index_ = "AnyAttr"
  THEN LET b == [a EXCEPT !.type_index_ = T, !.which = T, !.val = Default(T)]
           g == BoostGet(b, T)
       IN  [attr |-> b, err |-> g.err, val |-> g.val]
  ELSE IF a.type_index_ = T
  THEN LET g == BoostGet(a, T)
       IN  [attr |-> a, err |-> g.err, val |-> g.val]
  ELSE [attr |-> a, err |-> "TypeMismatch", val |-> "-"]

\* `As<T>() = v`: the assignment through the returned reference.
AnyAttrAssign(a, T, v) ==
  LET r == AnyAttrAs(a, T)
  IN  IF r.err = "ok"
      THEN [attr |-> [r.attr EXCEPT !.val = v], err |-> "ok", val |-> v]
      ELSE r

(* -------------------------------- Node --------------------------------- *)

\* Node() = default, with the member initialisers of lines 147-152.
\* cls is the dynamic class of the object.
NodeCtor ==
  [id_ |-> Unassigned, name_ |-> "", type_ |-> "kNone", deleted_ |-> FALSE,
   attrs_ |-> [k \in AttrNames |-> NoAttr],
   inlinks |-> <<>>, outlinks |-> <<>>, cls |-> "Node"]

\* void SetType(Type type) { type_ = type; }
SetType(n, type) == [n EXCEPT !.type_ = type]

\* Value() { SetType(Node::Type::kValue); }
ValueCtor == SetType([NodeCtor EXCEPT !.cls = "Value"], "kValue")

\* Function() { SetType(Node::Type::kFunction); }
FunctionCtor == SetType([NodeCtor EXCEPT !.cls = "Function"], "kFunction")

\* FunctionBlock() { SetType(Node::Type::kFunctionBlock); }
FunctionBlockCtor ==
  SetType([NodeCtor EXCEPT !.cls = "FunctionBlock"], "kFunctionBlock")

\* The tag the constructor of a class sets.
TypeOfClass(c) ==
  CASE c = "Function" -> "kFunction"
    [] c = "Value" -> "kValue"
    [] c = "FunctionBlock" -> "kFunctionBlock"
    [] c = "Node" -> "kNone"

\* A variant of SetDeleted that also unlinks the node.
SetDeletedUnlinks(n) ==
  [n EXCEPT !.deleted_ = TRUE, !.inlinks = <<>>, !.outlinks = <<>>]

\* A variant of SetDeleted that flips the flag.
SetDeletedToggles(n) == [n EXCEPT !.deleted_ = ~n.deleted_]

\* void SetDeleted() { deleted_ = true; }
SetDeleted(n) == [n EXCEPT !.deleted_ = TRUE]

\* void SetName(const std::string &name) { name_ = name; }
SetName(n, name) == [n EXCEPT !.name_ = name]

\* AnyAttr &attr(const std::string &name) const { return attrs_[name]; }
\* operator[] inserts a default-constructed AnyAttr for a missing key.
NodeAttr(n, name) ==
  IF n.attrs_[name].present THEN n
  ELSE [n EXCEPT !.attrs_[name] = AnyAttrCtor]

\* attr(name).As<T>(): the node afterwards, the outcome, the value read.
NodeAttrAs(n, name, T) ==
  LET m == NodeAttr(n, name)
      r == AnyAttrAs(m.attrs_[name], T)
  IN  [node |-> [m EXCEPT !.attrs_[name] = r.attr], err |-> r.err, val |-> r.val]

\* attr(name).As<T>() = v
NodeAttrAssign(n, name, T, v) ==
  LET m == NodeAttr(n, name)
      r == AnyAttrAssign(m.attrs_[name], T, v)
  IN  [node |-> [m EXCEPT !.attrs_[name] = r.attr], err |-> r.err, val |-> r.val]

\* A variant of pb_desc that reads the slot of pb_msg's neighbour "x".
PbDescOtherSlot(n) == NodeAttrAs(n, "x", "void*")

\* void SetPbDesc(void *pb) { attr("pb_desc").Pointer() = pb; }
SetPbDescOp(n, pb) == NodeAttrAssign(n, "pb_desc", "void*", pb)

\* void *pb_desc() const { return attr("pb_desc").Pointer(); }
PbDesc(n) == NodeAttrAs(n, "pb_desc", "void*")

\* void SetPbMsg(const std::string &s) { attr("pb_msg").String() = s; }
SetPbMsgOp(n, s) == NodeAttrAssign(n, "pb_msg", "std::string", s)

\* const std::string &pb_msg() const { return attr("pb_msg").String(); }
PbMsg(n) == NodeAttrAs(n, "pb_msg", "std::string")

\* bool IsFunction() / IsValue() / IsFunctionBlock(): type_ == the tag.
IsType(n, type) == n.type_ = type

\* dynamic_cast<Subclass *>(this): the object itself when its dynamic class
\* is Subclass, a null pointer otherwise.
DynamicCast(n, Subclass) == IF n.cls = Subclass THEN "this" ELSE "null"

\* The outcomes of Subclass &As() { return *dynamic_cast<Subclass *>(this); }
\* Binding a reference to *nullptr is undefined: the call may fault or hand
\* back a reference to no object.
NodeAsOutcomes(n, Subclass) ==
  IF DynamicCast(n, Subclass) = "this" THEN {"ok"}
  ELSE {"segfault", "dangling_view"}

(* ------------------------------- NodeMap ------------------------------- *)

\* A variant that keeps the id signed.
ToSizeTSigned(i) == i

\* An int passed where a size_t is expected: -1 becomes the largest size_t.
ToSizeT(i) == i % (2 ^ SizeBits)

\* A variant of size that counts only the nodes not marked deleted.
sizeLive(ns) == Cardinality({p \in 1..Len(ns) : ~ns[p].deleted_})

\* size_t size() const { return nodes_.size(); }
size(ns) == Len(ns)

\* const std::vector<std::unique_ptr<Node>> &nodes() const { return nodes_; }
nodes(ns) == ns

\* new Function / new Value / new FunctionBlock: the object the constructor
\* of the class leaves, before the NodeMap has seen it.
NewNode(type) ==
  CASE type = "kFunction" -> FunctionCtor
    [] type = "kValue" -> ValueCtor
    [] type = "kFunctionBlock" -> FunctionBlockCtor

\* Node *NodeMap::Create(Node::Type type): the node of the class is appended
\* to nodes_ and given the next identity, its position.
NodeMapCreate(ns, type) ==
  LET grown == Append(ns, NewNode(type))
  IN  [grown EXCEPT ![Len(grown)].id_ = size(grown) - 1]

\* const Node &NodeMap::Get(size_t id) const and Node *GetMutable(size_t id):
\* the node at position id, or OutOfRange when id was never assigned.
NodeMapGet(ns, id) ==
  IF id < size(ns) THEN [err |-> "ok", ret |-> id]
  ELSE [err |-> "OutOfRange", ret |-> Unassigned]

\* void NodeMap::Delete(size_t id): marks the node at id deleted.
NodeMapDelete(ns, id) == [ns EXCEPT ![id + 1] = SetDeleted(@)]

(* ------------------------------- calls --------------------------------- *)

\* The record of a call that hands something back to its caller, a value or
\* an exception: what was called on which node (for Get and GetMutable: with
\* which id) with which arguments, how it ended, and what it returned (val:
\* an attribute value or a tag, ret: a node position, a size or a truth
\* value as 0/1).  A void call that cannot throw leaves NoCall.
Call(op, node, name, T, err, val, ret) ==
  [op |-> op, node |-> node, name |-> name, T |-> T, err |-> err,
   val |-> val, ret |-> ret]

NoCall == Call("-", Unassigned, "-", "-", "ok", "-", Unassigned)

\* The positions of the nodes the Registry owns.
Ids == 0..(size(nodes_) - 1)

\* The ids handed to Get / GetMutable: assigned ones, the first unassigned
\* ones and the unassigned sentinel.
ProbeIds == (0..(MaxNodes + 1)) \cup {Unassigned}

\* How many link entries all nodes hold together.
RECURSIVE LinkCount(_, _)
LinkCount(ns, p) ==
  IF p = 0 THEN 0
  ELSE Len(ns[p].inlinks) + Len(ns[p].outlinks) + LinkCount(ns, p - 1)

Init ==
  /\ nodes_ = <<>>
  /\ last = NoCall

(* registry operations *)

Create(type) ==
  /\ size(nodes_) < MaxNodes
  /\ nodes_' = NodeMapCreate(nodes_, type)
  /\ last' = Call("Create", Unassigned, "-", "-", "ok", "-",
                  nodes_'[Len(nodes_')].id_)

Get(id) ==
  LET r == NodeMapGet(nodes_, ToSizeT(id))
  IN  /\ last' = Call("Get", id, "-", "-", r.err, "-", r.ret)
      /\ UNCHANGED nodes_

GetMutable(id) ==
  LET r == NodeMapGet(nodes_, ToSizeT(id))
  IN  /\ last' = Call("GetMutable", id, "-", "-", r.err, "-", r.ret)
      /\ UNCHANGED nodes_

Size ==
  /\ last' = Call("size", Unassigned, "-", "-", "ok", "-", size(nodes_))
  /\ UNCHANGED nodes_

\* Delete is called with the id of a node of the Registry.
Delete(id) ==
  /\ id \in Ids
  /\ nodes_' = NodeMapDelete(nodes_, id)
  /\ last' = NoCall

(* node operations, on the node at position i *)

NodeSetDeleted(i) ==
  /\ i \in Ids
  /\ nodes_' = [nodes_ EXCEPT ![i + 1] = SetDeleted(@)]
  /\ last' = NoCall

NodeSetName(i, name) ==
  /\ i \in Ids
  /\ nodes_' = [nodes_ EXCEPT ![i + 1] = SetName(@, name)]
  /\ last' = NoCall

NodeSetType(i, type) ==
  /\ i \in Ids
  /\ nodes_' = [nodes_ EXCEPT ![i + 1] = SetType(@, type)]
  /\ last' = NoCall

\* type(): the tag is returned in val.
NodeType(i) ==
  /\ i \in Ids
  /\ last' = Call("type", i, "-", "-", "ok", nodes_[i + 1].type_, Unassigned)
  /\ UNCHANGED nodes_

NodeIsType(i, type) ==
  /\ i \in Ids
  /\ last' = Call("Is", i, type, "-", "ok", "-",
                  IF IsType(nodes_[i + 1], type) THEN 1 ELSE 0)
  /\ UNCHANGED nodes_

\* As<Subclass>() on the node at i.
NodeAs(i, Subclass) ==
  /\ i \in Ids
  /\ \E o \in NodeAsOutcomes(nodes_[i + 1], Subclass) :
       last' = Call("As", i, Subclass, "-", o, "-", Unassigned)
  /\ UNCHANGED nodes_

\* nodes_[i]->inlinks.push_back(nodes_[j])
PushInlink(i, j) ==
  /\ i \in Ids /\ j \in Ids
  /\ LinkCount(nodes_, Len(nodes_)) < MaxLinks
  /\ nodes_' = [nodes_ EXCEPT ![i + 1].inlinks = Append(@, j)]
  /\ last' = NoCall

\* nodes_[i]->outlinks.push_back(nodes_[j])
PushOutlink(i, j) ==
  /\ i \in Ids /\ j \in Ids
  /\ LinkCount(nodes_, Len(nodes_)) < MaxLinks
  /\ nodes_' = [nodes_ EXCEPT ![i + 1].outlinks = Append(@, j)]
  /\ last' = NoCall

(* attribute operations, on the node at position i *)

\* attr(name), the slot left as operator[] made it.
Attr(i, name) ==
  /\ i \in Ids
  /\ nodes_' = [nodes_ EXCEPT ![i + 1] = NodeAttr(@, name)]
  /\ last' = NoCall

\* attr(name).As<T>(), read.
AttrGet(i, name, T) ==
  /\ i \in Ids
  /\ LET r == NodeAttrAs(nodes_[i + 1], name, T)
     IN  /\ nodes_' = [nodes_ EXCEPT ![i + 1] = r.node]
         /\ last' = Call("AttrGet", i, name, T, r.err, r.val, Unassigned)

\* attr(name).As<T>() = v
AttrSet(i, name, T, v) ==
  /\ i \in Ids
  /\ LET r == NodeAttrAssign(nodes_[i + 1], name, T, v)
     IN  /\ nodes_' = [nodes_ EXCEPT ![i + 1] = r.node]
         /\ last' = Call("AttrSet", i, name, T, r.err, r.val, Unassigned)

DoSetPbDesc(i, pb) ==
  /\ i \in Ids
  /\ LET r == SetPbDescOp(nodes_[i + 1], pb)
     IN  /\ nodes_' = [nodes_ EXCEPT ![i + 1] = r.node]
         /\ last' = Call("SetPbDesc", i, "-", "-", r.err, pb, Unassigned)

DoPbDesc(i) ==
  /\ i \in Ids
  /\ LET r == PbDesc(nodes_[i + 1])
     IN  /\ nodes_' = [nodes_ EXCEPT ![i + 1] = r.node]
         /\ last' = Call("pb_desc", i, "-", "-", r.err, r.val, Unassigned)

DoSetPbMsg(i, s) ==
  /\ i \in Ids
  /\ LET r == SetPbMsgOp(nodes_[i + 1], s)
     IN  /\ nodes_' = [nodes_ EXCEPT ![i + 1] = r.node]
         /\ last' = Call("SetPbMsg", i, "-", "-", r.err, s, Unassigned)

DoPbMsg(i) ==
  /\ i \in Ids
  /\ LET r == PbMsg(nodes_[i + 1])
     IN  /\ nodes_' = [nodes_ EXCEPT ![i + 1] = r.node]
         /\ last' = Call("pb_msg", i, "-", "-", r.err, r.val, Unassigned)

(* --------------------------- specifications ---------------------------- *)

\* The Registry: creation, lookup, tombstones, and the tag setter.
Next ==
  \/ \E type \in Variants : Create(type)
  \/ \E id \in ProbeIds : Get(id)
  \/ \E id \in ProbeIds : GetMutable(id)
  \/ Size
  \/ \E id \in 0..(MaxNodes - 1) : Delete(id)
  \/ \E i \in 0..(MaxNodes - 1) : NodeSetDeleted(i)
  \/ \E i \in 0..(MaxNodes - 1), type \in Variants : NodeSetType(i, type)

Spec == Init /\ [][Next]_vars

\* The graph: function and value nodes, their names, their links (from a
\* node to another one) and their tombstones.
NextGraph ==
  \/ \E type \in {"kFunction", "kValue"} : Create(type)
  \/ \E id \in 0..(MaxNodes - 1) : Delete(id)
  \/ \E i \in 0..(MaxNodes - 1) : NodeSetDeleted(i)
  \/ \E i \in 0..(MaxNodes - 1), name \in NodeNames : NodeSetName(i, name)
  \/ \E i, j \in 0..(MaxNodes - 1) : i # j /\ PushInlink(i, j)
  \/ \E i, j \in 0..(MaxNodes - 1) : i # j /\ PushOutlink(i, j)

SpecGraph == Init /\ [][NextGraph]_vars

\* The variant tag and the downcast.
NextType ==
  \/ \E type \in Variants : Create(type)
  \/ \E i \in 0..(MaxNodes - 1), type \in NodeTypes : NodeSetType(i, type)
  \/ \E i \in 0..(MaxNodes - 1) : NodeType(i)
  \/ \E i \in 0..(MaxNodes - 1), type \in Variants : NodeIsType(i, type)
  \/ \E i \in 0..(MaxNodes - 1), c \in Classes : NodeAs(i, c)

SpecType == Init /\ [][NextType]_vars

\* The attribute bag of one node: attrs_ is a member of the node, and no
\* operation on a node reaches the bag of another.
CreateFirst == size(nodes_) = 0 /\ Create("kFunction")

NextAttr ==
  \/ CreateFirst
  \/ \E name \in AttrNames : Attr(0, name)
  \/ \E name \in AttrNames, T \in AttrTypes : AttrGet(0, name, T)
  \/ \E name \in AttrNames, T \in AttrTypes : \E v \in Vals(T) :
       AttrSet(0, name, T, v)
  \/ \E pb \in Vals("void*") : DoSetPbDesc(0, pb)
  \/ DoPbDesc(0)
  \/ \E s \in Vals("std::string") : DoSetPbMsg(0, s)
  \/ DoPbMsg(0)

SpecAttr == Init /\ [][NextAttr]_vars

(* ------------------------------ properties ----------------------------- *)

\* The slot of attribute `name` of the node at position 0.
Slot(name) == nodes_[1].attrs_[name]

\* A step of Create.
CreateStep == \E type \in Variants : Create(type)

\* C1. Identity density: size() is the number of Create calls so far (it
\* grows by one with each Create and by nothing else, tombstoned nodes
\* included), Get(i) and GetMutable(i) succeed and hand back the node at i
\* for every i in [0, size()), and fail with OutOfRange for every i >= size()
\* and for the unassigned id -1.
IdentityDensity ==
  /\ [](\A id \in ProbeIds :
          LET r == NodeMapGet(nodes_, ToSizeT(id))
          IN  IF 0 <= id /\ id < Len(nodes_)
              THEN r.err = "ok" /\ r.ret = id
              ELSE r.err = "OutOfRange")
  /\ [](last.op \in {"Get", "GetMutable"} =>
          IF 0 <= last.node /\ last.node < Len(nodes_)
          THEN last.err = "ok" /\ last.ret = last.node
          ELSE last.err = "OutOfRange")
  /\ [](last.op = "size" => last.ret = Len(nodes_))
  /\ [][IF CreateStep THEN size(nodes_') = size(nodes_) + 1
        ELSE size(nodes_') = size(nodes_)]_vars

\* C1 witness: the Registry is full, one of its nodes is tombstoned, and a
\* lookup of the unassigned id has just failed.
IdentityDensityWitness ==
  /\ Len(nodes_) = MaxNodes
  /\ \E p \in 1..Len(nodes_) : nodes_[p].deleted_
  /\ last.op = "Get" /\ last.node = Unassigned /\ last.err = "OutOfRange"

\* C2. Variant immutability, as claimed: the tag type() reads from a node
\* is the tag of the variant requested when the node was created, whatever
\* was called in between.
VariantImmutable ==
  last.op = "type" => last.val = TypeOfClass(nodes_[last.node + 1].cls)

\* C3. Attribute type-lock: once a slot has a type, every access with
\* another type fails with TypeMismatch, and no step changes the type of the
\* slot or removes it.
AttrTypeLock ==
  /\ [](Len(nodes_) > 0 =>
          \A name \in AttrNames, U \in AttrTypes :
            Slot(name).type_index_ \notin {"AnyAttr", U} =>
              /\ NodeAttrAs(nodes_[1], name, U).err = "TypeMismatch"
              /\ \A v \in Vals(U) :
                   NodeAttrAssign(nodes_[1], name, U, v).err = "TypeMismatch")
  /\ [](last.op \in {"AttrGet", "AttrSet"} /\ last.err = "ok" =>
          Slot(last.name).type_index_ = last.T)
  /\ [][Len(nodes_) > 0 =>
          /\ \A name \in AttrNames :
               Slot(name).type_index_ # "AnyAttr" =>
                 /\ nodes_'[1].attrs_[name].present
                 /\ nodes_'[1].attrs_[name].type_index_ = Slot(name).type_index_
          /\ (/\ last'.op \in {"AttrGet", "AttrSet"}
              /\ Slot(last'.name).type_index_ \notin {"AnyAttr", last'.T})
               => last'.err = "TypeMismatch"]_vars

\* C3 witness: an access to "x" has just failed with TypeMismatch while
\* other names have been typed in between.
AttrTypeLockWitness ==
  /\ Len(nodes_) > 0
  /\ last.op = "AttrGet" /\ last.name = "x" /\ last.err = "TypeMismatch"
  /\ Slot("pb_msg").type_index_ = "bool"
  /\ Slot("pb_desc").type_index_ = "void*"

\* C4. Attribute default and no reset: a typed read of a slot that has no
\* type yet returns T() and leaves T() stored; a typed read of a slot of that
\* type returns the stored value and leaves the slot as it is; and the value
\* of a typed slot changes only by a successful write to that slot, to the
\* value written.
AttrDefaultNoReset ==
  /\ [][(Len(nodes_) > 0 /\ last'.op = "AttrGet" /\ last'.err = "ok") =>
          LET a == Slot(last'.name)
              b == nodes_'[1].attrs_[last'.name]
          IN  IF a.type_index_ = "AnyAttr"
              THEN /\ last'.val = Default(last'.T)
                   /\ b.val = Default(last'.T)
                   /\ b.type_index_ = last'.T
              ELSE last'.val = a.val /\ b = a]_vars
  /\ [][Len(nodes_) > 0 =>
          \A name \in AttrNames :
            (/\ Slot(name).type_index_ # "AnyAttr"
             /\ nodes_'[1].attrs_[name].val # Slot(name).val)
              => /\ last'.err = "ok"
                 /\ nodes_'[1].attrs_[name].val = last'.val
                 /\ \/ last'.op = "AttrSet" /\ last'.name = name
                    \/ last'.op = "SetPbDesc" /\ name = "pb_desc"
                    \/ last'.op = "SetPbMsg" /\ name = "pb_msg"]_vars

\* C4 witness: a typed read has just returned a value that is not the
\* default of its type, i.e. one written earlier.
AttrDefaultNoResetWitness ==
  /\ Len(nodes_) > 0
  /\ last.op = "AttrGet" /\ last.err = "ok" /\ last.T = "int64_t"
  /\ last.val = "9L"

\* The positions that hold `id` in a link vector.
Refs(links, id) == {k \in 1..Len(links) : links[k] = id}

\* C5. Tombstone is non-destructive: Delete(id) on an assigned id changes
\* only the deleted flag of that node, to true; Get(id) still finds the node,
\* size() is unchanged, and every other node, with its links to the node, is
\* unchanged.
TombstoneNonDestructive ==
  [][\A id \in Ids :
       Delete(id) =>
         /\ size(nodes_') = size(nodes_)
         /\ nodes_'[id + 1] = [nodes_[id + 1] EXCEPT !.deleted_ = TRUE]
         /\ nodes_'[id + 1].id_ = id
         /\ NodeMapGet(nodes_', ToSizeT(id)) = [err |-> "ok", ret |-> id]
         /\ \A p \in 1..Len(nodes_) :
              p # id + 1 => nodes_'[p] = nodes_[p]]_vars

\* C5 witness: a named, tombstoned node that has links of its own and is
\* still referenced from the links of another node.
TombstoneNonDestructiveWitness ==
  \E p, q \in 1..Len(nodes_) :
    /\ p # q
    /\ nodes_[p].deleted_ /\ nodes_[p].name_ = "a"
    /\ Len(nodes_[p].outlinks) > 0
    /\ Refs(nodes_[q].inlinks, p - 1) # {}
    /\ ~nodes_[q].deleted_

\* C6. Tombstone is permanent and idempotent: a node is created with
\* deleted false; SetDeleted and Delete set it; no step clears it; and on a
\* node already tombstoned SetDeleted and Delete change nothing.
TombstonePermanent ==
  /\ [][\A p \in 1..Len(nodes_') :
          IF p <= Len(nodes_)
          THEN nodes_[p].deleted_ => nodes_'[p].deleted_
          ELSE ~nodes_'[p].deleted_]_vars
  /\ [][\A i \in Ids :
          (NodeSetDeleted(i) \/ Delete(i)) => nodes_'[i + 1].deleted_]_vars
  /\ [](\A p \in 1..Len(nodes_) :
          nodes_[p].deleted_ =>
            /\ SetDeleted(nodes_[p]) = nodes_[p]
            /\ NodeMapDelete(nodes_, p - 1) = nodes_)

\* C6 witness: a tombstoned node whose tag was set and which was looked up
\* afterwards, in a full Registry.
TombstonePermanentWitness ==
  /\ Len(nodes_) = MaxNodes
  /\ last.op = "GetMutable" /\ last.err = "ok"
  /\ nodes_[last.ret + 1].deleted_
  /\ nodes_[last.ret + 1].type_ # TypeOfClass(nodes_[last.ret + 1].cls)

\* C7. Identity is unique, positional and write-once: the node at position
\* k has id k, no two nodes share an id, Create returns the node whose id is
\* the number of nodes created before, no step changes the id of a node, and
\* a node no Registry has seen has id -1.
IdentityPositional ==
  /\ [](\A p \in 1..Len(nodes(nodes_)) : nodes(nodes_)[p].id_ = p - 1)
  /\ [](\A p, q \in 1..Len(nodes_) :
          p # q => nodes_[p].id_ # nodes_[q].id_)
  /\ [](\A type \in Variants : NewNode(type).id_ = Unassigned)
  /\ [][/\ \A p \in 1..Len(nodes_) :
             p <= Len(nodes_') /\ nodes_'[p].id_ = nodes_[p].id_
        /\ CreateStep =>
             /\ last'.ret = Len(nodes_)
             /\ nodes_'[Len(nodes_')].id_ = Len(nodes_)]_vars

\* C7 witness: a node created after an earlier node was removed.
IdentityPositionalWitness ==
  /\ Len(nodes_) = MaxNodes
  /\ nodes_[1].deleted_
  /\ last.op = "Create" /\ last.ret = MaxNodes - 1

\* C8. Checked downcast, as claimed: As<Subclass>() returns the view exactly
\* when the tag of the node is the tag of Subclass, and ends in
\* InvalidDowncast otherwise.
CheckedDowncast ==
  last.op = "As" =>
    IF nodes_[last.node + 1].type_ = TypeOfClass(last.name)
    THEN last.err = "ok"
    ELSE last.err = "InvalidDowncast"

\* SetPbDesc(p) then pb_desc(), and SetPbMsg(s) then pb_msg(), on node n.
DescRoundTrip(n, p) ==
  LET w == SetPbDescOp(n, p)
      r == PbDesc(w.node)
  IN  [set |-> w, get |-> r]

MsgRoundTrip(n, s) ==
  LET w == SetPbMsgOp(n, s)
      r == PbMsg(w.node)
  IN  [set |-> w, get |-> r]

\* C9, as claimed: in every state the public operations of a node reach,
\* SetPbDesc(p) then pb_desc() returns p and SetPbMsg(s) then pb_msg()
\* returns s, and setting one leaves the other as it was.
DescriptionRoundTripAlways ==
  Len(nodes_) > 0 =>
    /\ \A p \in Vals("void*") :
         LET t == DescRoundTrip(nodes_[1], p)
         IN  /\ t.set.err = "ok" /\ t.get.err = "ok" /\ t.get.val = p
             /\ t.get.node.attrs_["pb_msg"] = Slot("pb_msg")
    /\ \A s \in Vals("std::string") :
         LET t == MsgRoundTrip(nodes_[1], s)
         IN  /\ t.set.err = "ok" /\ t.get.err = "ok" /\ t.get.val = s
             /\ t.get.node.attrs_["pb_desc"] = Slot("pb_desc")

\* C9, amended: while the slot "pb_desc" has no type or the type void*,
\* SetPbDesc(p) then pb_desc() returns p, and otherwise both fail with
\* TypeMismatch and change nothing; the same for "pb_msg" and std::string;
\* pb_desc() / pb_msg() on a slot that has no type yet returns the null
\* pointer / the empty string; and neither setter changes the other slot.
DescriptionRoundTrip ==
  /\ [](Len(nodes_) > 0 =>
          \A p \in Vals("void*") :
            LET t == DescRoundTrip(nodes_[1], p)
            IN  IF Slot("pb_desc").type_index_ \in {"AnyAttr", "void*"}
                THEN /\ t.set.err = "ok" /\ t.get.err = "ok" /\ t.get.val = p
                     /\ t.get.node = t.set.node
                     /\ t.get.node.attrs_["pb_msg"] = Slot("pb_msg")
                     /\ t.get.node.attrs_["x"] = Slot("x")
                ELSE /\ t.set.err = "TypeMismatch" /\ t.set.node = nodes_[1]
                     /\ t.get.err = "TypeMismatch" /\ t.get.node = nodes_[1])
  /\ [](Len(nodes_) > 0 =>
          \A s \in Vals("std::string") :
            LET t == MsgRoundTrip(nodes_[1], s)
            IN  IF Slot("pb_msg").type_index_ \in {"AnyAttr", "std::string"}
                THEN /\ t.set.err = "ok" /\ t.get.err = "ok" /\ t.get.val = s
                     /\ t.get.node = t.set.node
                     /\ t.get.node.attrs_["pb_desc"] = Slot("pb_desc")
                     /\ t.get.node.attrs_["x"] = Slot("x")
                ELSE /\ t.set.err = "TypeMismatch" /\ t.set.node = nodes_[1]
                     /\ t.get.err = "TypeMismatch" /\ t.get.node = nodes_[1])
  /\ [](Len(nodes_) > 0 =>
          /\ Slot("pb_desc").type_index_ = "AnyAttr" =>
               PbDesc(nodes_[1]).val = "nullptr"
          /\ Slot("pb_msg").type_index_ = "AnyAttr" =>
               PbMsg(nodes_[1]).val = "")
  /\ [](last.op = "pb_desc" /\ last.err = "ok" =>
          last.val = Slot("pb_desc").val)
  /\ [](last.op = "pb_msg" /\ last.err = "ok" =>
          last.val = Slot("pb_msg").val)
  /\ [][(last'.op = "SetPbDesc" /\ last'.err = "ok") =>
          /\ nodes_'[1].attrs_["pb_desc"].val = last'.val
          /\ nodes_'[1].attrs_["pb_msg"] = Slot("pb_msg")]_vars
  /\ [][(last'.op = "SetPbMsg" /\ last'.err = "ok") =>
          /\ nodes_'[1].attrs_["pb_msg"].val = last'.val
          /\ nodes_'[1].attrs_["pb_desc"] = Slot("pb_desc")]_vars

\* C9 witness: pb_desc() has just returned the handle set before, on a node
\* whose "pb_msg" holds a message and whose "x" was accessed as well.
DescriptionRoundTripWitness ==
  /\ Len(nodes_) > 0
  /\ last.op = "pb_desc" /\ last.err = "ok" /\ last.val = "0xA"
  /\ Slot("pb_msg").type_index_ = "std::string" /\ Slot("pb_msg").val = "msg"
  /\ Slot("x").type_index_ = "int32_t"

\* C10. A failed attribute access changes nothing: a call that ends in
\* TypeMismatch leaves every node as it was, slot included, so an access with
\* the type of the slot still returns the stored value.
FailedAccessNoChange ==
  /\ [][last'.err = "TypeMismatch" => nodes_' = nodes_]_vars
  /\ [](last.err = "TypeMismatch" /\ last.op \in {"AttrGet", "AttrSet"} =>
          LET a == Slot(last.name)
          IN  /\ a.type_index_ \notin {"AnyAttr", last.T}
              /\ NodeAttrAs(nodes_[1], last.name, a.type_index_) =
                   [node |-> nodes_[1], err |-> "ok", val |-> a.val])

\* C10 witness: a write with the wrong type has just failed on a slot that
\* holds a value other than its default, beside another typed slot.
FailedAccessNoChangeWitness ==
  /\ Len(nodes_) > 0
  /\ last.op = "AttrSet" /\ last.err = "TypeMismatch" /\ last.name = "x"
  /\ Slot("x").type_index_ = "std::string" /\ Slot("x").val = "msg"
  /\ Slot("pb_desc").val = "0xA"

====
